---- MODULE Spec2Model ----
(***************************************************************************)
(* Background process of the Nomee extension (src/unnamed/part_001):       *)
(* the tab monitor (handleTabUpdate), the name resolver, the notification  *)
(* policy and the message router, over chrome.storage.sync.                *)
(*                                                                         *)
(* JavaScript strings are sequences of one-character strings, so that      *)
(* toLowerCase, startsWith, substring, includes and split are computed.    *)
(* undefined and null are the one-element sequences Undefined and Null;    *)
(* a null object is the record NullObj.                                    *)
(*                                                                         *)
(* The process is single-threaded: every action below is one handler or    *)
(* one continuation, run from one suspension point (await, callback,       *)
(* timer) to the next.  chrome.storage.sync calls of the process are       *)
(* served in the order they are issued (storageQueue); fetch, tabs.query,  *)
(* tabs.get, timers and openPopup complete in any order (pending).         *)
(***************************************************************************)
EXTENDS Integers, Sequences, FiniteSets, Bags, TLC

\* ------------------------------------------------------------------ bounds
\* asynchronous calls in flight (storage calls, fetches, tabs queries, timers)
\* beyond which no new tab event or request arrives
MaxInFlight == 2
\* recent-chat requests handled in the recent-chats specification
MaxRequests == 3
\* chats in the list that clearRecentChats clears
MaxCleared == 4
\* characters of a hostname handed to extractDomain
MaxHostLen == 7

\* ---------------------------------------------------------- program constants
\* recentChats.slice(0, 10)
MaxRecentChats == 10

\* ------------------------------------------------------------- JS values
Undefined == <<"#undefined">>
Null == <<"#null">>
NullObj == [null |-> TRUE]
\* sendResponse was not called
NoResponse == [none |-> TRUE]

\* JS truthiness of a string-or-absent value
Truthy(v) == v # Undefined /\ v # Null /\ v # <<>>

UpperToLower ==
  [c \in {"A", "B", "C", "D", "W"} |->
     CASE c = "A" -> "a" [] c = "B" -> "b" [] c = "C" -> "c"
       [] c = "D" -> "d" [] c = "W" -> "w"]

\* variant: the string is left as it is
toLowerCase_Id(s) == s

toLowerCase(s) ==
  [i \in 1..Len(s) |-> IF s[i] \in DOMAIN UpperToLower THEN UpperToLower[s[i]] ELSE s[i]]

startsWith(s, p) == Len(s) >= Len(p) /\ SubSeq(s, 1, Len(p)) = p

\* variant: nothing is cut off
substring_Whole(s, from) == s

\* String.prototype.substring(from), from counted from 0
substring(s, from) == SubSeq(s, from + 1, Len(s))

\* String.prototype.includes(char) and Array.prototype.includes(element)
includes(s, x) == \E i \in 1..Len(s) : s[i] = x

\* String.prototype.split(sep) for a one-character separator
RECURSIVE splitFrom(_, _, _, _)
splitFrom(s, sep, i, cur) ==
  IF i > Len(s) THEN <<cur>>
  ELSE IF s[i] = sep THEN <<cur>> \o splitFrom(s, sep, i + 1, <<>>)
  ELSE splitFrom(s, sep, i + 1, Append(cur, s[i]))

split(s, sep) == splitFrom(s, sep, 1, <<>>)

\* ------------------------------------------------------------------ URLs
\* A tab's url: absent, the empty string, a string that new URL() parses to a
\* hostname, or a string new URL() rejects.
NoUrl == [kind |-> "undefined"]
EmptyUrl == [kind |-> "empty"]
BadUrl == [kind |-> "unparseable"]
Url(host) == [kind |-> "url", hostname |-> host]

UrlA == Url(<<"w", "w", "w", ".", "A", ".", "b">>)
UrlB == Url(<<"c", ".", "d">>)
UrlLocal == Url(<<"n", "t">>)

DomA == <<"a", ".", "b">>
DomB == <<"c", ".", "d">>

\* urls a tab loads, and the domain the blacklist requests name
Urls == {UrlA, UrlB, UrlLocal}
BlacklistDomains == {DomA}
Tabs == {1}

\* if (!url) return null: undefined and "" are falsy
extractDomain(url) ==
  IF url.kind = "undefined" \/ url.kind = "empty" THEN Null
  ELSE IF url.kind = "unparseable" THEN Null
  ELSE LET lower == toLowerCase(url.hostname)
           hostname == IF startsWith(lower, <<"w", "w", "w", ".">>)
                       THEN substring(lower, 4) ELSE lower
       IN IF ~includes(hostname, ".") \/ Len(hostname) < 3 THEN Null ELSE hostname

\* ------------------------------------------------------- resolver payloads
\* parts[2] ?? null of input.split(":")
parseCAIP10(input) ==
  LET parts == split(input, ":")
      part(i) == IF i <= Len(parts) THEN parts[i] ELSE Undefined
  IN [namespace |-> part(1), chainId |-> part(2),
      address |-> IF part(3) = Undefined THEN Null ELSE part(3)]

Listing1 == [price |-> <<"5">>, currency |-> [symbol |-> <<"E">>, decimals |-> <<"1", "8">>]]

extractPriceFromName(nameData) ==
  IF Len(nameData.tokens) > 0 /\ Len(nameData.tokens[1].listings) > 0
  THEN LET listing == nameData.tokens[1].listings[1]
       IN [price |-> listing.price, decimals |-> listing.currency.decimals,
           currency |-> listing.currency.symbol]
  ELSE NullObj

\* amount?.field
optField(amount, f) == IF amount = NullObj THEN Undefined ELSE amount[f]

Claimed3 == <<"e", ":", "1", ":", "x">>
Claimed2 == <<"e", ":", "1">>

NameDatas ==
  { [claimedBy |-> Claimed3, tokens |-> << [listings |-> <<Listing1>>] >>],
    [claimedBy |-> Claimed2, tokens |-> << [listings |-> <<Listing1>>] >>],
    [claimedBy |-> Undefined, tokens |-> <<>>] }

\* What fetch() delivers: a rejection, a non-2xx response, or a JSON body.
Responses ==
  { [kind |-> "reject"], [kind |-> "status", ok |-> FALSE] }
  \cup { [kind |-> "json", ok |-> TRUE, errors |-> TRUE, name |-> NullObj] }
  \cup { [kind |-> "json", ok |-> TRUE, errors |-> FALSE, name |-> n] :
           n \in NameDatas \cup {NullObj} }

\* resolveNameAddress after the fetch settled: every failure is caught and
\* becomes null.
resolveNameAddress(response) ==
  IF response.kind = "reject" THEN NullObj
  ELSE IF ~response.ok THEN NullObj
  ELSE IF response.errors THEN NullObj
  ELSE response.name

\* ------------------------------------------------------------ recent chats
chatDomains(list) == [i \in 1..Len(list) |-> list[i].domain]

\* variant: the filter on the domain keeps every entry
withoutDomain_KeepAll(list, domain) == list

withoutDomain(list, domain) ==
  LET keep(chat) == chat.domain # domain IN SelectSeq(list, keep)

\* variant: no truncation
slice_All(list, n) == list

slice(list, n) == SubSeq(list, 1, IF Len(list) < n THEN Len(list) ELSE n)

\* variant: the chat is pushed at the end instead of unshifted
addedRecentChats_Push(recentChats, chat) ==
  slice(withoutDomain(recentChats, chat.domain) \o <<chat>>, MaxRecentChats)

\* addToRecentChats, from the list read to the list written
addedRecentChats(recentChats, chat) ==
  slice(<<chat>> \o withoutDomain(recentChats, chat.domain), MaxRecentChats)

\* variant: the most recent chat is removed, whatever its domain
removedRecentChats_Front(recentChats, domain) ==
  IF recentChats = <<>> THEN <<>> ELSE Tail(recentChats)

\* removeFromRecentChats, from the list read to the list written
removedRecentChats(recentChats, domain) == withoutDomain(recentChats, domain)

Chat(domain, address, listing) ==
  [domain |-> domain, ethAddress |-> address, price |-> listing.price,
   decimals |-> listing.currency.decimals, currency |-> listing.currency.symbol]

\* recentChats as the previous version of the extension left it: one chat, with
\* the owner of DomB
InitialRecentChats == { << <<Chat(DomB, <<"x">>, Listing1)>> >> }

\* eleven domains for the recent-chats list, and the list of the n most recent
\* of them, most recent first (domain 1 is the oldest)
Letters == <<"a", "b", "c", "d", "e", "f", "g", "h", "i", "j", "k">>
ChatDomain(i) == <<Letters[i], ".", "x">>
Listing2 == [price |-> <<"7">>, currency |-> [symbol |-> <<"U">>, decimals |-> <<"6">>]]
StoredChats(n) == [i \in 1..n |-> Chat(ChatDomain(n + 1 - i), <<"x">>, Listing1)]
ChatRequestDomains == {ChatDomain(1), ChatDomain(2), ChatDomain(11)}
ChatListings == {Listing1, Listing2}
\* lengths of the stored list the recent-chats specification starts from
InitialChatCounts == {0, 1, 2, MaxRecentChats - 1, MaxRecentChats}

\* badge text: "" and the active marker
BadgeClear == <<>>
BadgeActive == <<"o">>

\* ------------------------------------------------------------------ state
VARIABLES
  isExtensionEnabled,        \* in-memory enabled flag
  currentDomain,             \* tracked domain, or Null
  ethAddress, price, decimals, currency,   \* the resolved owner
  cachedBlacklistedDomains,  \* in-memory copy of the blacklist
  storage,                   \* chrome.storage.sync: key -> <<>> (unset) or <<value>>
  storageQueue,              \* storage calls issued and not yet answered, in order
  pending,                   \* bag of the other callbacks in flight
  tabUrl, activeTab,         \* the browser's tabs
  badge,                     \* badge text per tab
  notification,              \* id of the system notification the last step created, or Null
  sentResponse,              \* what the last step passed to sendResponse, or NoResponse
  arg, ret,                  \* argument and result of a function applied on its own
  history,                   \* history of the handleTabUpdate calls (see RunAfter)
  reqLog                     \* history: recent-chat requests handled (recent-chats spec)

ownerVars == <<ethAddress, price, decimals, currency>>
memVars == <<isExtensionEnabled, currentDomain, ownerVars, cachedBlacklistedDomains>>
envVars == <<tabUrl, activeTab>>
callVars == <<arg, ret>>
vars == <<memVars, storage, storageQueue, pending, envVars, badge, notification, sentResponse,
          callVars, history, reqLog>>

OwnerCleared ==
  /\ ethAddress' = Undefined
  /\ price' = Undefined
  /\ decimals' = Undefined
  /\ currency' = Undefined

stored(key) == IF storage[key] = <<>> THEN <<>> ELSE storage[key][1]

Task(t) == SetToBag({t})

InFlight == Len(storageQueue) + BagCardinality(pending)

\* module-level variables as declared, no tab loaded, nothing in flight
InitMemory ==
  /\ isExtensionEnabled = TRUE
  /\ currentDomain = Null
  /\ ethAddress = Undefined
  /\ price = Undefined
  /\ decimals = Undefined
  /\ currency = Undefined
  /\ cachedBlacklistedDomains = <<>>
  /\ pending = EmptyBag
  /\ tabUrl = [t \in Tabs |-> NoUrl]
  /\ activeTab = 1
  /\ badge = [t \in Tabs |-> BadgeClear]
  /\ notification = Null
  /\ sentResponse = NoResponse
  /\ history = [domain |-> Undefined, calls |-> 0, repeated |-> FALSE,
                roundTrip |-> <<>>, reenabled |-> FALSE, started |-> TRUE,
                failed |-> <<>>, unresolved |-> FALSE]
  /\ reqLog = <<>>

\* the extension was installed or updated: onInstalled has issued its storage read
Init ==
  /\ InitMemory
  /\ \E chats \in InitialRecentChats :
       storage = [extensionEnabled |-> <<>>, blacklistedDomains |-> <<>>, recentChats |-> chats]
  /\ storageQueue = << [kind |-> "get", cont |-> "onInstalled"] >>
  /\ arg = <<>>
  /\ ret = <<>>

\* ------------------------------------------------------------ tab monitor
\* if (domain !== currentDomain)
\* variant: every call is handled as a domain change
DomainChanged_Always(domain) == TRUE

\* variant: only the first domain tracked is handled as a change
DomainChanged_FirstOnly(domain) == domain # currentDomain /\ currentDomain = Null

DomainChanged(domain) == domain # currentDomain

\* variant: the recent chats are not consulted
shouldAutoOpenPopup_BlacklistOnly(domain) ==
  ~includes(stored("blacklistedDomains"), domain)

\* shouldAutoOpenPopup, evaluated on the storage snapshot
shouldAutoOpenPopup(domain) ==
  /\ ~includes(chatDomains(stored("recentChats")), domain)
  /\ ~includes(stored("blacklistedDomains"), domain)

\* handleTabUpdate(tab) up to its first await.  It writes currentDomain, the
\* owner, the badge and the storage queue; the calling action constrains the rest.
\* The two storage reads of shouldAutoOpenPopup (Promise.all) are issued back to
\* back and are one entry of the queue.
handleTabUpdate(tab) ==
  IF ~isExtensionEnabled
  THEN UNCHANGED <<currentDomain, ownerVars, badge, storageQueue>>
  ELSE LET domain == extractDomain(tab.url) IN
       IF ~DomainChanged(domain)
       THEN UNCHANGED <<currentDomain, ownerVars, badge, storageQueue>>
       ELSE /\ currentDomain' = domain
            /\ IF Truthy(domain) /\ ~includes(cachedBlacklistedDomains, domain)
               THEN /\ storageQueue' = Append(storageQueue,
                         [kind |-> "get", cont |-> "shouldAutoOpenPopup",
                          domain |-> domain, tab |-> tab.id])
                    /\ UNCHANGED <<ownerVars, badge>>
               ELSE /\ badge' = [badge EXCEPT ![tab.id] = BadgeClear]
                    /\ OwnerCleared
                    /\ UNCHANGED storageQueue

\* History after a handleTabUpdate call that passed the enabled check: the
\* domain of the latest call, the resolutions started since the calls for that
\* domain began (read off the storage queue), and whether a tab event repeated
\* that domain; the call ends a blacklist round trip and a re-enabling (see
\* AddToBlacklistSet, RemoveFromBlacklistSet and toggleExtension).
\* history.started: no handleTabUpdate call and no toggle since the process
\* started.
\* history.failed: the storage call of the process that failed last (see
\* StorageFailed).
\* history.unresolved: the resolution that completed last ended without a
\* record or threw (kept by ResolveDoneRecorded).
\* tabEvent: the call comes from onUpdated or onActivated.
RunAfter(tab, tabEvent) ==
  IF ~isExtensionEnabled THEN [history EXCEPT !.started = FALSE]
  ELSE LET domain == extractDomain(tab.url)
           same == domain = history.domain
       IN [domain |-> domain,
           calls |-> (IF same THEN history.calls ELSE 0)
                       + Len(storageQueue') - Len(storageQueue),
           repeated |-> same /\ (tabEvent \/ history.repeated),
           roundTrip |-> <<>>,
           reenabled |-> FALSE,
           started |-> FALSE,
           failed |-> history.failed,
           unresolved |-> history.unresolved]

\* chrome.tabs.onUpdated with status "complete": tab t finished loading url u
TabUpdated(t, u) ==
  /\ InFlight < MaxInFlight
  /\ tabUrl' = [tabUrl EXCEPT ![t] = u]
  /\ IF u # NoUrl
     THEN /\ handleTabUpdate([id |-> t, url |-> u])
          /\ history' = RunAfter([id |-> t, url |-> u], TRUE)
     ELSE UNCHANGED <<currentDomain, ownerVars, badge, storageQueue, history>>
  /\ notification' = Null
  /\ sentResponse' = NoResponse
  /\ UNCHANGED callVars
  /\ UNCHANGED <<isExtensionEnabled, cachedBlacklistedDomains, storage, pending,
                 activeTab, reqLog>>

\* chrome.tabs.onActivated: the listener asks chrome.tabs.get for the tab
TabActivated(t) ==
  /\ InFlight < MaxInFlight
  /\ activeTab' = t
  /\ pending' = pending (+) Task([kind |-> "tabsGet", tab |-> t])
  /\ notification' = Null
  /\ sentResponse' = NoResponse
  /\ UNCHANGED callVars
  /\ UNCHANGED <<memVars, storage, storageQueue, tabUrl, badge, history, reqLog>>

\* callback of chrome.tabs.get
TabsGetDone(t) ==
  /\ BagIn([kind |-> "tabsGet", tab |-> t], pending)
  /\ pending' = pending (-) Task([kind |-> "tabsGet", tab |-> t])
  /\ IF tabUrl[t] # NoUrl
     THEN /\ handleTabUpdate([id |-> t, url |-> tabUrl[t]])
          /\ history' = RunAfter([id |-> t, url |-> tabUrl[t]], TRUE)
     ELSE UNCHANGED <<currentDomain, ownerVars, badge, storageQueue, history>>
  /\ notification' = Null
  /\ sentResponse' = NoResponse
  /\ UNCHANGED callVars
  /\ UNCHANGED <<isExtensionEnabled, cachedBlacklistedDomains, storage, envVars, reqLog>>

\* handleTabUpdate resumed after shouldAutoOpenPopup: the fetch is issued
ShouldAutoOpenPopupDone ==
  /\ storageQueue # <<>>
  /\ Head(storageQueue).cont = "shouldAutoOpenPopup"
  /\ LET call == Head(storageQueue) IN
       pending' = pending (+) Task([kind |-> "fetch", domain |-> call.domain,
                                    tab |-> call.tab,
                                    shouldShowPopup |-> shouldAutoOpenPopup(call.domain)])
  /\ storageQueue' = Tail(storageQueue)
  /\ notification' = Null
  /\ sentResponse' = NoResponse
  /\ UNCHANGED callVars
  /\ UNCHANGED <<memVars, storage, envVars, badge, history, reqLog>>

\* handleTabUpdate resumed after resolveNameAddress(domain) settled: what it
\* writes
ResolveReturned(task, response) ==
  /\ BagIn(task, pending)
  /\ task.kind = "fetch"
  /\ LET nameData == resolveNameAddress(response) IN
       IF nameData = NullObj
       THEN \* if (!nameData) return;
            /\ pending' = pending (-) Task(task)
            /\ UNCHANGED <<ownerVars, badge>>
       ELSE IF nameData.claimedBy = Undefined
       THEN \* parseCAIP10(undefined) throws: the catch block
            /\ OwnerCleared
            /\ badge' = [badge EXCEPT ![task.tab] = BadgeClear]
            /\ pending' = pending (-) Task(task)
       ELSE LET amount == extractPriceFromName(nameData)
                address == parseCAIP10(nameData.claimedBy).address
            IN /\ ethAddress' = address
               /\ price' = optField(amount, "price")
               /\ decimals' = optField(amount, "decimals")
               /\ currency' = optField(amount, "currency")
               /\ IF Truthy(address)
                  THEN /\ badge' = [badge EXCEPT ![task.tab] = BadgeActive]
                       /\ pending' =
                            IF task.shouldShowPopup
                            THEN (pending (-) Task(task))
                                   (+) Task([kind |-> "timer", domain |-> task.domain])
                            ELSE pending (-) Task(task)
                  ELSE /\ badge' = [badge EXCEPT ![task.tab] = BadgeClear]
                       /\ pending' = pending (-) Task(task)
  /\ notification' = Null
  /\ sentResponse' = NoResponse
  /\ UNCHANGED callVars
  /\ UNCHANGED <<isExtensionEnabled, currentDomain, cachedBlacklistedDomains,
                 storage, storageQueue, envVars, reqLog>>

\* handleTabUpdate resumed after resolveNameAddress(domain) settled
ResolveDone(task, response) ==
  /\ ResolveReturned(task, response)
  /\ UNCHANGED history

\* the same step, with history.unresolved kept
ResolveDoneRecorded(task, response) ==
  /\ ResolveReturned(task, response)
  /\ history' = [history EXCEPT !.unresolved =
                   \/ resolveNameAddress(response) = NullObj
                   \/ resolveNameAddress(response).claimedBy = Undefined]

\* ------------------------------------------------------ notification policy
\* variant: one id for every domain
NotificationId_Constant(domain) == <<"eth-found-">>

NotificationId(domain) == <<"eth-found-">> \o domain

\* the 500 ms timer fires: chrome.action.openPopup() is called
TimerFired(task) ==
  /\ BagIn(task, pending)
  /\ task.kind = "timer"
  /\ pending' = (pending (-) Task(task))
                  (+) Task([kind |-> "openPopup", domain |-> task.domain])
  /\ notification' = Null
  /\ sentResponse' = NoResponse
  /\ UNCHANGED callVars
  /\ UNCHANGED <<memVars, storage, storageQueue, envVars, badge, history, reqLog>>

\* openPopup() resolved: the popup is open
OpenPopupResolved(task) ==
  /\ BagIn(task, pending)
  /\ task.kind = "openPopup"
  /\ pending' = pending (-) Task(task)
  /\ notification' = Null
  /\ sentResponse' = NoResponse
  /\ UNCHANGED callVars
  /\ UNCHANGED <<memVars, storage, storageQueue, envVars, badge, history, reqLog>>

\* openPopup() rejected: the fallback notification
OpenPopupRejected(task) ==
  /\ BagIn(task, pending)
  /\ task.kind = "openPopup"
  /\ pending' = pending (-) Task(task)
  /\ notification' = NotificationId(task.domain)
  /\ sentResponse' = NoResponse
  /\ UNCHANGED callVars
  /\ UNCHANGED <<memVars, storage, storageQueue, envVars, badge, history, reqLog>>

\* ------------------------------------------------------------ installation
\* callback of the storage read issued by chrome.runtime.onInstalled
OnInstalledLoaded ==
  /\ storageQueue # <<>>
  /\ Head(storageQueue).cont = "onInstalled"
  /\ isExtensionEnabled' = (storage.extensionEnabled # <<FALSE>>)
  /\ cachedBlacklistedDomains' = stored("blacklistedDomains")
  /\ storageQueue' = Tail(storageQueue)
  /\ notification' = Null
  /\ sentResponse' = NoResponse
  /\ UNCHANGED callVars
  /\ UNCHANGED <<currentDomain, ownerVars, storage, pending, envVars, badge, history, reqLog>>

\* --------------------------------------------------------- storage writes
\* a chrome.storage.sync.set nobody waits for (toggleExtension), or whose
\* continuation only returns (addToRecentChats, removeFromRecentChats)
StorageSetDone ==
  /\ storageQueue # <<>>
  /\ Head(storageQueue).kind = "set"
  /\ Head(storageQueue).cont = "none"
  /\ storage' = [storage EXCEPT ![Head(storageQueue).key] = <<Head(storageQueue).value>>]
  /\ storageQueue' = Tail(storageQueue)
  /\ notification' = Null
  /\ sentResponse' = NoResponse
  /\ UNCHANGED callVars
  /\ UNCHANGED <<memVars, pending, envVars, badge, history, reqLog>>

\* ---------------------------------------------------------- message router
\* variant: answering the status also switches the extension on
getStatus_Enabling ==
  /\ sentResponse' = [enabled |-> isExtensionEnabled, domain |-> currentDomain,
                      ethAddress |-> ethAddress, price |-> price,
                      decimals |-> decimals, currency |-> currency]
  /\ isExtensionEnabled' = TRUE
  /\ notification' = Null
  /\ UNCHANGED <<currentDomain, ownerVars, cachedBlacklistedDomains, storage,
                 storageQueue, pending, envVars, badge, callVars, history, reqLog>>

\* request.action === "getStatus": answered from memory in the handling step
getStatus ==
  /\ sentResponse' = [enabled |-> isExtensionEnabled, domain |-> currentDomain,
                      ethAddress |-> ethAddress, price |-> price,
                      decimals |-> decimals, currency |-> currency]
  /\ notification' = Null
  /\ UNCHANGED <<memVars, storage, storageQueue, pending, envVars, badge, callVars,
                 history, reqLog>>

\* request.action === "toggleExtension"  (history starts afresh;
\* history.reenabled: monitoring was switched on and no handleTabUpdate call
\* has passed the enabled check since)
toggleExtension ==
  /\ InFlight < MaxInFlight
  /\ isExtensionEnabled' = ~isExtensionEnabled
  /\ storageQueue' = Append(storageQueue,
        [kind |-> "set", cont |-> "none", key |-> "extensionEnabled",
         value |-> ~isExtensionEnabled])
  /\ IF isExtensionEnabled
     THEN \* now disabled: clear the badge of the active tab
          /\ pending' = pending (+) Task([kind |-> "tabsQuery", cont |-> "toggleOff"])
          /\ UNCHANGED ownerVars
     ELSE \* now enabled: clear the owner and re-check the active tab
          /\ OwnerCleared
          /\ pending' = pending (+) Task([kind |-> "tabsQuery", cont |-> "toggleOn"])
  /\ history' = [domain |-> Undefined, calls |-> 0, repeated |-> FALSE,
                 roundTrip |-> <<>>, reenabled |-> ~isExtensionEnabled, started |-> FALSE,
                 failed |-> history.failed, unresolved |-> history.unresolved]
  /\ notification' = Null
  /\ sentResponse' = [enabled |-> isExtensionEnabled']
  /\ UNCHANGED callVars
  /\ UNCHANGED <<currentDomain, cachedBlacklistedDomains, storage, envVars, badge, reqLog>>

\* callback of chrome.tabs.query after disabling
ToggleOffQueryDone ==
  /\ BagIn([kind |-> "tabsQuery", cont |-> "toggleOff"], pending)
  /\ pending' = pending (-) Task([kind |-> "tabsQuery", cont |-> "toggleOff"])
  /\ badge' = [badge EXCEPT ![activeTab] = BadgeClear]
  /\ notification' = Null
  /\ sentResponse' = NoResponse
  /\ UNCHANGED callVars
  /\ UNCHANGED <<memVars, storage, storageQueue, envVars, history, reqLog>>

\* callback of chrome.tabs.query after enabling: handleTabUpdate(tabs[0])
ToggleOnQueryDone ==
  /\ BagIn([kind |-> "tabsQuery", cont |-> "toggleOn"], pending)
  /\ pending' = pending (-) Task([kind |-> "tabsQuery", cont |-> "toggleOn"])
  /\ handleTabUpdate([id |-> activeTab, url |-> tabUrl[activeTab]])
  /\ history' = RunAfter([id |-> activeTab, url |-> tabUrl[activeTab]], FALSE)
  /\ notification' = Null
  /\ sentResponse' = NoResponse
  /\ UNCHANGED callVars
  /\ UNCHANGED <<isExtensionEnabled, cachedBlacklistedDomains, storage, envVars, reqLog>>

\* request.action === "addToBlacklist": addToBlacklist(domain) runs to its
\* first await and { success: true } is sent
addToBlacklist(domain) ==
  /\ InFlight < MaxInFlight
  /\ storageQueue' = Append(storageQueue,
        [kind |-> "get", cont |-> "addToBlacklist", domain |-> domain])
  /\ notification' = Null
  /\ sentResponse' = [success |-> TRUE]
  /\ UNCHANGED callVars
  /\ UNCHANGED <<memVars, storage, pending, envVars, badge, history, reqLog>>

\* variant: the domain is pushed without the includes test
AddToBlacklistGot_AlwaysPush ==
  /\ storageQueue # <<>>
  /\ Head(storageQueue).kind = "get"
  /\ Head(storageQueue).cont = "addToBlacklist"
  /\ LET domain == Head(storageQueue).domain
         blacklistedDomains == stored("blacklistedDomains")
     IN storageQueue' =
          Append(Tail(storageQueue),
            [kind |-> "set", cont |-> "addToBlacklist", key |-> "blacklistedDomains",
             value |-> Append(blacklistedDomains, domain), domain |-> domain])
  /\ notification' = Null
  /\ sentResponse' = NoResponse
  /\ UNCHANGED callVars
  /\ UNCHANGED <<memVars, storage, pending, envVars, badge, history, reqLog>>

\* addToBlacklist resumed with the stored list
AddToBlacklistGot ==
  /\ storageQueue # <<>>
  /\ Head(storageQueue).kind = "get"
  /\ Head(storageQueue).cont = "addToBlacklist"
  /\ LET domain == Head(storageQueue).domain
         blacklistedDomains == stored("blacklistedDomains")
     IN storageQueue' =
          IF ~includes(blacklistedDomains, domain)
          THEN Append(Tail(storageQueue),
                 [kind |-> "set", cont |-> "addToBlacklist", key |-> "blacklistedDomains",
                  value |-> Append(blacklistedDomains, domain), domain |-> domain])
          ELSE Tail(storageQueue)
  /\ notification' = Null
  /\ sentResponse' = NoResponse
  /\ UNCHANGED callVars
  /\ UNCHANGED <<memVars, storage, pending, envVars, badge, history, reqLog>>

\* addToBlacklist resumed after the write: cache updated, active tab queried.
\* (history.roundTrip: a round trip begins when the domain added is the one
\* tracked on the active tab while enabled; it lasts until the next
\* handleTabUpdate call that passes the enabled check, or the next toggle.)
AddToBlacklistSet ==
  /\ storageQueue # <<>>
  /\ Head(storageQueue).kind = "set"
  /\ Head(storageQueue).cont = "addToBlacklist"
  /\ storage' = [storage EXCEPT !.blacklistedDomains = <<Head(storageQueue).value>>]
  /\ cachedBlacklistedDomains' = Head(storageQueue).value
  /\ pending' = pending (+) Task([kind |-> "tabsQuery", cont |-> "addToBlacklist",
                                   domain |-> Head(storageQueue).domain])
  /\ storageQueue' = Tail(storageQueue)
  /\ history' = [history EXCEPT !.roundTrip =
                   IF /\ isExtensionEnabled
                      /\ extractDomain(tabUrl[activeTab]) = Head(storageQueue).domain
                      /\ currentDomain = Head(storageQueue).domain
                   THEN <<"added", Head(storageQueue).domain>>
                   ELSE <<>>]
  /\ notification' = Null
  /\ sentResponse' = NoResponse
  /\ UNCHANGED callVars
  /\ UNCHANGED <<isExtensionEnabled, currentDomain, ownerVars, envVars, badge, reqLog>>

\* callback of chrome.tabs.query in addToBlacklist
AddToBlacklistQueryDone(task) ==
  /\ BagIn(task, pending)
  /\ task.kind = "tabsQuery"
  /\ task.cont = "addToBlacklist"
  /\ pending' = pending (-) Task(task)
  /\ IF extractDomain(tabUrl[activeTab]) = task.domain
     THEN /\ badge' = [badge EXCEPT ![activeTab] = BadgeClear]
          /\ OwnerCleared
     ELSE UNCHANGED <<badge, ownerVars>>
  /\ notification' = Null
  /\ sentResponse' = NoResponse
  /\ UNCHANGED callVars
  /\ UNCHANGED <<isExtensionEnabled, currentDomain, cachedBlacklistedDomains, storage,
                 storageQueue, envVars, history, reqLog>>

\* request.action === "removeFromBlacklist"
removeFromBlacklist(domain) ==
  /\ InFlight < MaxInFlight
  /\ storageQueue' = Append(storageQueue,
        [kind |-> "get", cont |-> "removeFromBlacklist", domain |-> domain])
  /\ notification' = Null
  /\ sentResponse' = [success |-> TRUE]
  /\ UNCHANGED callVars
  /\ UNCHANGED <<memVars, storage, pending, envVars, badge, history, reqLog>>

\* removeFromBlacklist resumed with the stored list (wasListed is history)
RemoveFromBlacklistGot ==
  /\ storageQueue # <<>>
  /\ Head(storageQueue).kind = "get"
  /\ Head(storageQueue).cont = "removeFromBlacklist"
  /\ LET domain == Head(storageQueue).domain
         blacklistedDomains == stored("blacklistedDomains")
         keep(d) == d # domain
     IN storageQueue' =
          Append(Tail(storageQueue),
            [kind |-> "set", cont |-> "removeFromBlacklist", key |-> "blacklistedDomains",
             value |-> SelectSeq(blacklistedDomains, keep), domain |-> domain,
             wasListed |-> includes(blacklistedDomains, domain)])
  /\ notification' = Null
  /\ sentResponse' = NoResponse
  /\ UNCHANGED callVars
  /\ UNCHANGED <<memVars, storage, pending, envVars, badge, history, reqLog>>

\* removeFromBlacklist resumed after the write: cache updated, active tab queried
RemoveFromBlacklistSet ==
  /\ storageQueue # <<>>
  /\ Head(storageQueue).kind = "set"
  /\ Head(storageQueue).cont = "removeFromBlacklist"
  /\ storage' = [storage EXCEPT !.blacklistedDomains = <<Head(storageQueue).value>>]
  /\ cachedBlacklistedDomains' = Head(storageQueue).value
  /\ pending' = pending (+) Task([kind |-> "tabsQuery", cont |-> "removeFromBlacklist",
                                   domain |-> Head(storageQueue).domain,
                                   wasListed |-> Head(storageQueue).wasListed])
  /\ storageQueue' = Tail(storageQueue)
  /\ history' = [history EXCEPT !.roundTrip =
                   IF /\ history.roundTrip = <<"added", Head(storageQueue).domain>>
                      /\ Head(storageQueue).wasListed
                   THEN <<"removed", Head(storageQueue).domain>>
                   ELSE <<>>]
  /\ notification' = Null
  /\ sentResponse' = NoResponse
  /\ UNCHANGED callVars
  /\ UNCHANGED <<isExtensionEnabled, currentDomain, ownerVars, envVars, badge, reqLog>>

\* callback of chrome.tabs.query in removeFromBlacklist: the re-check
RemoveFromBlacklistQueryDone(task) ==
  /\ BagIn(task, pending)
  /\ task.kind = "tabsQuery"
  /\ task.cont = "removeFromBlacklist"
  /\ pending' = pending (-) Task(task)
  /\ IF extractDomain(tabUrl[activeTab]) = task.domain
     THEN /\ handleTabUpdate([id |-> activeTab, url |-> tabUrl[activeTab]])
          /\ history' = RunAfter([id |-> activeTab, url |-> tabUrl[activeTab]], FALSE)
     ELSE UNCHANGED <<currentDomain, ownerVars, badge, storageQueue, history>>
  /\ notification' = Null
  /\ sentResponse' = NoResponse
  /\ UNCHANGED callVars
  /\ UNCHANGED <<isExtensionEnabled, cachedBlacklistedDomains, storage, envVars, reqLog>>

\* ------------------------------------------------- recent chats requests
\* request.action === "addToRecentChats": addToRecentChats(...) runs to its
\* first await and { success: true } is sent.  (timestamp: Date.now() is stored
\* with the chat and never read by the background process; it is left out.)
addToRecentChats(domain, address, chatPrice, chatDecimals, chatCurrency) ==
  /\ Len(reqLog) < MaxRequests
  /\ storageQueue' = Append(storageQueue,
        [kind |-> "get", cont |-> "addToRecentChats",
         chat |-> [domain |-> domain, ethAddress |-> address, price |-> chatPrice,
                   decimals |-> chatDecimals, currency |-> chatCurrency]])
  /\ reqLog' = Append(reqLog, [action |-> "addToRecentChats", domain |-> domain,
                               price |-> chatPrice])
  /\ notification' = Null
  /\ sentResponse' = [success |-> TRUE]
  /\ UNCHANGED callVars
  /\ UNCHANGED <<memVars, storage, pending, envVars, badge, history>>

\* addToRecentChats resumed with the stored list (chat and read are history)
AddToRecentChatsGot ==
  /\ storageQueue # <<>>
  /\ Head(storageQueue).kind = "get"
  /\ Head(storageQueue).cont = "addToRecentChats"
  /\ LET chat == Head(storageQueue).chat
         recentChats == stored("recentChats")
     IN storageQueue' =
          Append(Tail(storageQueue),
            [kind |-> "set", cont |-> "none", key |-> "recentChats",
             value |-> addedRecentChats(recentChats, chat),
             op |-> "addToRecentChats", chat |-> chat, read |-> recentChats])
  /\ notification' = Null
  /\ sentResponse' = NoResponse
  /\ UNCHANGED callVars
  /\ UNCHANGED <<memVars, storage, pending, envVars, badge, history, reqLog>>

\* request.action === "removeFromRecentChats": the router's handling step
RemoveFromRecentChatsRequested(domain) ==
  /\ storageQueue' = Append(storageQueue,
        [kind |-> "get", cont |-> "removeFromRecentChats", domain |-> domain])
  /\ reqLog' = Append(reqLog, [action |-> "removeFromRecentChats", domain |-> domain,
                               price |-> Undefined])
  /\ notification' = Null
  /\ sentResponse' = [success |-> TRUE]
  /\ UNCHANGED callVars
  /\ UNCHANGED <<memVars, storage, pending, envVars, badge, history>>

\* a removeFromRecentChats request arrives
removeFromRecentChats(domain) ==
  /\ Len(reqLog) < MaxRequests
  /\ RemoveFromRecentChatsRequested(domain)

\* removeFromRecentChats resumed with the stored list
RemoveFromRecentChatsGot ==
  /\ storageQueue # <<>>
  /\ Head(storageQueue).kind = "get"
  /\ Head(storageQueue).cont = "removeFromRecentChats"
  /\ LET domain == Head(storageQueue).domain
         recentChats == stored("recentChats")
     IN storageQueue' =
          Append(Tail(storageQueue),
            [kind |-> "set", cont |-> "none", key |-> "recentChats",
             value |-> removedRecentChats(recentChats, domain),
             op |-> "removeFromRecentChats", domain |-> domain, read |-> recentChats])
  /\ notification' = Null
  /\ sentResponse' = NoResponse
  /\ UNCHANGED callVars
  /\ UNCHANGED <<memVars, storage, pending, envVars, badge, history, reqLog>>

\* ---------------------------------------------------------- specification
Next ==
  \/ \E t \in Tabs, u \in Urls : TabUpdated(t, u)
  \/ \E t \in Tabs : TabActivated(t)
  \/ \E t \in Tabs : TabsGetDone(t)
  \/ ShouldAutoOpenPopupDone
  \/ \E task \in BagToSet(pending), response \in Responses : ResolveDone(task, response)
  \/ \E task \in BagToSet(pending) : TimerFired(task)
  \/ \E task \in BagToSet(pending) : OpenPopupResolved(task)
  \/ \E task \in BagToSet(pending) : OpenPopupRejected(task)
  \/ OnInstalledLoaded
  \/ StorageSetDone
  \/ toggleExtension
  \/ ToggleOffQueryDone
  \/ ToggleOnQueryDone
  \/ \E d \in BlacklistDomains : addToBlacklist(d)
  \/ AddToBlacklistGot
  \/ AddToBlacklistSet
  \/ \E task \in BagToSet(pending) : AddToBlacklistQueryDone(task)
  \/ \E d \in BlacklistDomains : removeFromBlacklist(d)
  \/ RemoveFromBlacklistGot
  \/ RemoveFromBlacklistSet
  \/ \E task \in BagToSet(pending) : RemoveFromBlacklistQueryDone(task)

Spec == Init /\ [][Next]_vars

\* The recent-chats requests alone, from a settled background process whose
\* stored list holds the n most recent of the eleven chat domains.
InitRecentChats ==
  /\ InitMemory
  /\ \E n \in InitialChatCounts :
       storage = [extensionEnabled |-> <<>>, blacklistedDomains |-> <<>>,
                  recentChats |-> << StoredChats(n) >>]
  /\ storageQueue = <<>>
  /\ arg = <<>>
  /\ ret = <<>>

NextRecentChats ==
  \/ \E d \in ChatRequestDomains, l \in ChatListings :
       addToRecentChats(d, <<"y">>, l.price, l.currency.decimals, l.currency.symbol)
  \/ AddToRecentChatsGot
  \/ \E d \in ChatRequestDomains : removeFromRecentChats(d)
  \/ RemoveFromRecentChatsGot
  \/ StorageSetDone

SpecRecentChats == InitRecentChats /\ [][NextRecentChats]_vars


\* nothing of the process is outstanding
Idle == storageQueue = <<>> /\ pending = EmptyBag

\* The browser stops the idle background process and starts it again for the
\* next event: the module-level initialisers run again (lines 86-92) and the
\* listeners are registered; onInstalled, the only place where the stored
\* settings are loaded, is fired on install and update only, so no read is
\* issued.  Storage, tabs and badges are the browser's and stay.
Restart ==
  /\ Idle
  /\ isExtensionEnabled' = TRUE
  /\ currentDomain' = Null
  /\ OwnerCleared
  /\ cachedBlacklistedDomains' = <<>>
  /\ history' = [domain |-> Undefined, calls |-> 0, repeated |-> FALSE,
                 roundTrip |-> <<>>, reenabled |-> FALSE, started |-> TRUE,
                 failed |-> <<>>, unresolved |-> FALSE]
  /\ notification' = Null
  /\ sentResponse' = NoResponse
  /\ UNCHANGED <<storage, storageQueue, pending, envVars, badge, callVars, reqLog>>

NextRestart == Next \/ Restart

SpecRestart == Init /\ [][NextRestart]_vars

\* The popup's clearRecentChats (src/src/components/AlertDialog.tsx): one
\* removeFromRecentChats message per chat of the popup's list (arg), sent in
\* list order without waiting; the messages reach the router one by one, and
\* storage calls of earlier ones may be answered in between.  The settings
\* page's clearBlacklist does the same with removeFromBlacklist.
clearRecentChats ==
  /\ Len(reqLog) < Len(arg)
  /\ RemoveFromRecentChatsRequested(arg[Len(reqLog) + 1].domain)

\* the popup has loaded the stored list of n chats and the user clears it
InitClear ==
  /\ InitMemory
  /\ \E n \in 0..MaxCleared :
       /\ storage = [extensionEnabled |-> <<>>, blacklistedDomains |-> <<>>,
                     recentChats |-> << StoredChats(n) >>]
       /\ arg = StoredChats(n)
  /\ storageQueue = <<>>
  /\ ret = <<>>

NextClear ==
  \/ clearRecentChats
  \/ RemoveFromRecentChatsGot
  \/ StorageSetDone

SpecClear == InitClear /\ [][NextClear]_vars

\* Every kind of event the background process handles, in a small
\* environment: one page, one blacklist domain, one recent-chats domain, the
\* resolver answering with an owner or with nothing, and tab events and
\* requests arriving while nothing is in flight.
RouterResponses ==
  { [kind |-> "status", ok |-> FALSE],
    [kind |-> "json", ok |-> TRUE, errors |-> FALSE,
     name |-> [claimedBy |-> Claimed3, tokens |-> << [listings |-> <<Listing1>>] >>]] }

RouterEvent ==
  \/ \E t \in Tabs : TabUpdated(t, UrlA)
  \/ \E t \in Tabs : TabActivated(t)
  \/ getStatus
  \/ toggleExtension
  \/ \E d \in BlacklistDomains : addToBlacklist(d)
  \/ \E d \in BlacklistDomains : removeFromBlacklist(d)
  \/ addToRecentChats(DomA, <<"y">>, Listing1.price, Listing1.currency.decimals,
                      Listing1.currency.symbol)
  \/ removeFromRecentChats(DomA)

NextRouter ==
  \/ Idle /\ RouterEvent
  \/ \E t \in Tabs : TabsGetDone(t)
  \/ ShouldAutoOpenPopupDone
  \/ \E task \in BagToSet(pending), response \in RouterResponses : ResolveDone(task, response)
  \/ \E task \in BagToSet(pending) : TimerFired(task)
  \/ \E task \in BagToSet(pending) : OpenPopupResolved(task)
  \/ \E task \in BagToSet(pending) : OpenPopupRejected(task)
  \/ OnInstalledLoaded
  \/ StorageSetDone
  \/ ToggleOffQueryDone
  \/ ToggleOnQueryDone
  \/ AddToBlacklistGot
  \/ AddToBlacklistSet
  \/ \E task \in BagToSet(pending) : AddToBlacklistQueryDone(task)
  \/ RemoveFromBlacklistGot
  \/ RemoveFromBlacklistSet
  \/ \E task \in BagToSet(pending) : RemoveFromBlacklistQueryDone(task)
  \/ AddToRecentChatsGot
  \/ RemoveFromRecentChatsGot

SpecRouter == Init /\ [][NextRouter]_vars

\* ---------------------------------------------------------- storage failures
\* The storage call at the head of the queue fails (quota, sync error).  The
\* function that awaits it rejects where it stands: shouldAutoOpenPopup catches
\* and returns false, so handleTabUpdate goes on to the resolver call; the
\* blacklist and recent-chats functions have no catch and nobody awaits them,
\* so the rest of the function does not run; the callback of onInstalled
\* throws on the absent result.
\* variant: a failed write of the blacklist still updates the cache
StorageFailed_CacheUpdated ==
  /\ storageQueue # <<>>
  /\ storageQueue' = Tail(storageQueue)
  /\ LET call == Head(storageQueue) IN
       /\ pending' =
            IF call.cont = "shouldAutoOpenPopup"
            THEN pending (+) Task([kind |-> "fetch", domain |-> call.domain,
                                   tab |-> call.tab, shouldShowPopup |-> FALSE])
            ELSE pending
       /\ history' = [history EXCEPT !.failed =
                        <<call.kind, IF "op" \in DOMAIN call THEN call.op ELSE call.cont>>]
       /\ cachedBlacklistedDomains' =
            IF call.kind = "set" /\ call.cont \in {"addToBlacklist", "removeFromBlacklist"}
            THEN call.value ELSE cachedBlacklistedDomains
  /\ notification' = Null
  /\ sentResponse' = NoResponse
  /\ UNCHANGED callVars
  /\ UNCHANGED <<isExtensionEnabled, currentDomain, ownerVars, storage, envVars, badge, reqLog>>

StorageFailed ==
  /\ storageQueue # <<>>
  /\ storageQueue' = Tail(storageQueue)
  /\ LET call == Head(storageQueue) IN
       /\ pending' =
            IF call.cont = "shouldAutoOpenPopup"
            THEN pending (+) Task([kind |-> "fetch", domain |-> call.domain,
                                   tab |-> call.tab, shouldShowPopup |-> FALSE])
            ELSE pending
       /\ history' = [history EXCEPT !.failed =
                        <<call.kind, IF "op" \in DOMAIN call THEN call.op ELSE call.cont>>]
  /\ notification' = Null
  /\ sentResponse' = NoResponse
  /\ UNCHANGED callVars
  /\ UNCHANGED <<memVars, storage, envVars, badge, reqLog>>

\* tab events and the four requests that use the storage, arriving while
\* nothing is in flight
StorageEvent ==
  \/ \E t \in Tabs, u \in Urls : TabUpdated(t, u)
  \/ \E t \in Tabs : TabActivated(t)
  \/ \E d \in BlacklistDomains : addToBlacklist(d)
  \/ \E d \in BlacklistDomains : removeFromBlacklist(d)
  \/ addToRecentChats(DomA, <<"y">>, Listing1.price, Listing1.currency.decimals,
                      Listing1.currency.symbol)
  \/ removeFromRecentChats(DomA)

NextStorageFailure ==
  \/ Idle /\ StorageEvent
  \/ StorageFailed
  \/ \E t \in Tabs : TabsGetDone(t)
  \/ ShouldAutoOpenPopupDone
  \/ \E task \in BagToSet(pending), response \in Responses : ResolveDone(task, response)
  \/ \E task \in BagToSet(pending) : TimerFired(task)
  \/ \E task \in BagToSet(pending) : OpenPopupResolved(task)
  \/ \E task \in BagToSet(pending) : OpenPopupRejected(task)
  \/ OnInstalledLoaded
  \/ StorageSetDone
  \/ AddToBlacklistGot
  \/ AddToBlacklistSet
  \/ \E task \in BagToSet(pending) : AddToBlacklistQueryDone(task)
  \/ RemoveFromBlacklistGot
  \/ RemoveFromBlacklistSet
  \/ \E task \in BagToSet(pending) : RemoveFromBlacklistQueryDone(task)
  \/ AddToRecentChatsGot
  \/ RemoveFromRecentChatsGot

SpecStorageFailure == Init /\ [][NextStorageFailure]_vars

\* ------------------------------------------------------ tabs of every kind
\* The tab monitor alone, with tabs that also report no url (tab.url undefined)
\* or a url that new URL() rejects.
TabUrls == Urls \cup {NoUrl, BadUrl}

NextTabUrls ==
  \/ \E t \in Tabs, u \in TabUrls : TabUpdated(t, u)
  \/ \E t \in Tabs : TabActivated(t)
  \/ \E t \in Tabs : TabsGetDone(t)
  \/ ShouldAutoOpenPopupDone
  \/ \E task \in BagToSet(pending), response \in Responses : ResolveDone(task, response)
  \/ \E task \in BagToSet(pending) : TimerFired(task)
  \/ \E task \in BagToSet(pending) : OpenPopupResolved(task)
  \/ \E task \in BagToSet(pending) : OpenPopupRejected(task)
  \/ OnInstalledLoaded

SpecTabUrls == Init /\ [][NextTabUrls]_vars

\* --------------------------------------------- tab monitor after a failure
\* Tab events and blacklist requests arriving while nothing is in flight, the
\* outcome of the last resolution kept in history.unresolved.
NextUnresolved ==
  \/ Idle /\ \E t \in Tabs, u \in Urls : TabUpdated(t, u)
  \/ Idle /\ \E t \in Tabs : TabActivated(t)
  \/ Idle /\ \E d \in BlacklistDomains : addToBlacklist(d)
  \/ Idle /\ \E d \in BlacklistDomains : removeFromBlacklist(d)
  \/ \E t \in Tabs : TabsGetDone(t)
  \/ ShouldAutoOpenPopupDone
  \/ \E task \in BagToSet(pending), response \in Responses :
       ResolveDoneRecorded(task, response)
  \/ \E task \in BagToSet(pending) : TimerFired(task)
  \/ \E task \in BagToSet(pending) : OpenPopupResolved(task)
  \/ \E task \in BagToSet(pending) : OpenPopupRejected(task)
  \/ OnInstalledLoaded
  \/ AddToBlacklistGot
  \/ AddToBlacklistSet
  \/ \E task \in BagToSet(pending) : AddToBlacklistQueryDone(task)
  \/ RemoveFromBlacklistGot
  \/ RemoveFromBlacklistSet
  \/ \E task \in BagToSet(pending) : RemoveFromBlacklistQueryDone(task)

SpecUnresolved == Init /\ [][NextUnresolved]_vars

\* ------------------------------------------------------ the eight requests
\* request.action === "getRecentChats": the storage read is issued and the
\* listener returns true; nothing is sent in the handling step
getRecentChats ==
  /\ InFlight < MaxInFlight
  /\ storageQueue' = Append(storageQueue, [kind |-> "get", cont |-> "getRecentChats"])
  /\ notification' = Null
  /\ sentResponse' = NoResponse
  /\ UNCHANGED callVars
  /\ UNCHANGED <<memVars, storage, pending, envVars, badge, history, reqLog>>

\* variant: the callback of the read sends nothing
GetRecentChatsDone_Silent ==
  /\ storageQueue # <<>>
  /\ Head(storageQueue).cont = "getRecentChats"
  /\ storageQueue' = Tail(storageQueue)
  /\ notification' = Null
  /\ sentResponse' = NoResponse
  /\ UNCHANGED callVars
  /\ UNCHANGED <<memVars, storage, pending, envVars, badge, history, reqLog>>

\* callback of the read: sendResponse({ recentChats: result.recentChats || [] })
GetRecentChatsDone ==
  /\ storageQueue # <<>>
  /\ Head(storageQueue).cont = "getRecentChats"
  /\ storageQueue' = Tail(storageQueue)
  /\ notification' = Null
  /\ sentResponse' = [recentChats |-> stored("recentChats")]
  /\ UNCHANGED callVars
  /\ UNCHANGED <<memVars, storage, pending, envVars, badge, history, reqLog>>

\* request.action === "getBlacklist"
getBlacklist ==
  /\ InFlight < MaxInFlight
  /\ storageQueue' = Append(storageQueue, [kind |-> "get", cont |-> "getBlacklist"])
  /\ notification' = Null
  /\ sentResponse' = NoResponse
  /\ UNCHANGED callVars
  /\ UNCHANGED <<memVars, storage, pending, envVars, badge, history, reqLog>>

\* callback of the read:
\* sendResponse({ blacklistedDomains: result.blacklistedDomains || [] })
GetBlacklistDone ==
  /\ storageQueue # <<>>
  /\ Head(storageQueue).cont = "getBlacklist"
  /\ storageQueue' = Tail(storageQueue)
  /\ notification' = Null
  /\ sentResponse' = [blacklistedDomains |-> stored("blacklistedDomains")]
  /\ UNCHANGED callVars
  /\ UNCHANGED <<memVars, storage, pending, envVars, badge, history, reqLog>>

\* a request that is answered in the handling step arrives while nothing is
\* in flight; a request that waits for a storage read arrives at any time
ProtocolRequest ==
  \/ Idle /\ getStatus
  \/ getRecentChats
  \/ getBlacklist
  \/ Idle /\ toggleExtension
  \/ Idle /\ \E d \in BlacklistDomains : addToBlacklist(d)
  \/ Idle /\ \E d \in BlacklistDomains : removeFromBlacklist(d)
  \/ Idle /\ addToRecentChats(DomA, <<"y">>, Listing1.price, Listing1.currency.decimals,
                               Listing1.currency.symbol)
  \/ Idle /\ removeFromRecentChats(DomA)

\* the storage call at the head of the queue completes
StorageCompleted ==
  \/ OnInstalledLoaded
  \/ StorageSetDone
  \/ GetRecentChatsDone
  \/ GetBlacklistDone
  \/ AddToBlacklistGot
  \/ AddToBlacklistSet
  \/ RemoveFromBlacklistGot
  \/ RemoveFromBlacklistSet
  \/ AddToRecentChatsGot
  \/ RemoveFromRecentChatsGot

NextProtocol ==
  \/ ProtocolRequest
  \/ StorageCompleted
  \/ ToggleOffQueryDone
  \/ ToggleOnQueryDone
  \/ \E task \in BagToSet(pending) : AddToBlacklistQueryDone(task)
  \/ \E task \in BagToSet(pending) : RemoveFromBlacklistQueryDone(task)

\* the extension was installed on a browser without stored keys, or updated
\* over a stored list of recent chats
InitProtocol ==
  /\ InitMemory
  /\ \E chats \in {<<>>} \cup InitialRecentChats :
       storage = [extensionEnabled |-> <<>>, blacklistedDomains |-> <<>>, recentChats |-> chats]
  /\ storageQueue = << [kind |-> "get", cont |-> "onInstalled"] >>
  /\ arg = <<>>
  /\ ret = <<>>

\* storage calls eventually complete
SpecProtocol == InitProtocol /\ [][NextProtocol]_vars /\ WF_vars(StorageCompleted)

\* ------------------------------------------------------------- properties
ResolvedOwnerPresent == Truthy(ethAddress)

\* Blacklisted(domain): the domain is in the persisted blacklist or in its cache
Blacklisted(domain) ==
  \/ includes(cachedBlacklistedDomains, domain)
  \/ includes(stored("blacklistedDomains"), domain)

\* the step starts a resolution of domain: the settings snapshot that precedes
\* the resolver call is queued last
ResolutionStarted(domain) ==
  /\ Len(storageQueue') = Len(storageQueue) + 1
  /\ storageQueue'[Len(storageQueue')].cont = "shouldAutoOpenPopup"
  /\ storageQueue'[Len(storageQueue')].domain = domain

\* the step is a tab event (onUpdated with status complete, or the tab read
\* after onActivated) that reaches handleTabUpdate for tab t
TabEvent(t) ==
  \/ tabUrl'[t] \in Urls /\ TabUpdated(t, tabUrl'[t])
  \/ tabUrl[t] # NoUrl /\ TabsGetDone(t)

\* an addToBlacklist or removeFromBlacklist operation is between its request
\* and the end of its last callback
BlacklistOperationInFlight ==
  \/ \E i \in 1..Len(storageQueue) :
       storageQueue[i].cont \in {"addToBlacklist", "removeFromBlacklist"}
  \/ \E task \in BagToSet(pending) :
       task.kind = "tabsQuery" /\ task.cont \in {"addToBlacklist", "removeFromBlacklist"}

\* the response makes the resolver report NotFound (null) or makes
\* handleTabUpdate throw (a name without claimedBy)
NotFound(response) == resolveNameAddress(response) = NullObj
Throws(response) ==
  /\ resolveNameAddress(response) # NullObj
  /\ resolveNameAddress(response).claimedBy = Undefined

\* C1: in every reachable state, a present resolvedOwner implies that
\* monitoring is enabled, that currentDomain is present, and that
\* currentDomain is not blacklisted.
C1_OwnerOnlyWhileMonitored ==
  ResolvedOwnerPresent =>
    /\ isExtensionEnabled
    /\ Truthy(currentDomain)
    /\ ~Blacklisted(currentDomain)

\* C2: a resolution that completes for a domain other than currentDomain
\* writes nothing to resolvedOwner.
C2_StaleResolutionDiscarded ==
  [][\A task \in BagToSet(pending), response \in Responses :
       (task.kind = "fetch" /\ task.domain # currentDomain /\ ResolveDone(task, response))
         => UNCHANGED ownerVars]_vars

\* C3: whenever no blacklist operation is in flight and currentDomain is in
\* the blacklist (persisted and cached), resolvedOwner is absent.
C3_BlacklistedDomainHasNoOwner ==
  (/\ ~BlacklistOperationInFlight
   /\ includes(cachedBlacklistedDomains, currentDomain)
   /\ includes(stored("blacklistedDomains"), currentDomain))
    => ~ResolvedOwnerPresent

\* C4: when the resolution for the tracked domain ends in NotFound or throws,
\* resolvedOwner is absent and the badge of the tab is cleared once the
\* handler has finished.
C4_FailedResolutionClears ==
  [][\A task \in BagToSet(pending), response \in Responses :
       (/\ task.kind = "fetch"
        /\ isExtensionEnabled
        /\ task.domain = currentDomain
        /\ ~Blacklisted(task.domain)
        /\ NotFound(response) \/ Throws(response)
        /\ ResolveDone(task, response))
         => /\ ~Truthy(ethAddress')
            /\ badge'[task.tab] = BadgeClear]_vars

\* C5 as stated: while enabled, the second of two consecutive tab events for
\* one valid domain leaves exactly one resolver call issued for the pair.
C5_ExactlyOneResolverCall ==
  [][\A t \in Tabs :
       (/\ isExtensionEnabled
        /\ TabEvent(t)
        /\ Truthy(extractDomain(tabUrl'[t]))
        /\ extractDomain(tabUrl'[t]) = history.domain)
         => history'.calls = 1]_vars

\* C5: while enabled, a tab event starts one resolution exactly when its
\* domain is valid, differs from the tracked domain and is not in the cached
\* blacklist; a tab event that repeats the domain of the call before it starts
\* none, changes no state of the background process, and leaves at most one
\* resolver call issued for the domain.
C5_RepeatedTabEventIsNoOp ==
  [][\A t \in Tabs :
       (isExtensionEnabled /\ TabEvent(t)) =>
         LET domain == extractDomain(tabUrl'[t])
             fresh == /\ Truthy(domain)
                      /\ domain # currentDomain
                      /\ ~includes(cachedBlacklistedDomains, domain)
         IN /\ IF fresh THEN ResolutionStarted(domain) ELSE UNCHANGED storageQueue
            /\ domain = history.domain =>
                 /\ UNCHANGED <<memVars, storage, storageQueue, badge>>
                 /\ \A task \in BagToSet(pending') :
                      task.kind = "fetch" =>
                        CopiesIn(task, pending') = CopiesIn(task, pending)
                 /\ history'.calls = history.calls
                 /\ history'.calls <= 1]_vars

\* C6: the stored recent-chats list never holds more than MaxRecentChats
\* entries and never two entries for one domain, whatever the interleaving of
\* the add and remove requests.
C6_RecentChatsBounded ==
  LET list == stored("recentChats") IN
    /\ Len(list) <= MaxRecentChats
    /\ \A i, j \in 1..Len(list) : i # j => list[i].domain # list[j].domain

\* C7: addToRecentChats(c) applied to the stored list L writes c followed by
\* L when L has no entry for the domain and fewer than MaxRecentChats entries,
\* c followed by the first MaxRecentChats - 1 entries of L when L is full and
\* has no entry for the domain, and c followed by L without its entry for the
\* domain otherwise.
C7_AddMovesToFront ==
  [][(/\ StorageSetDone
      /\ Head(storageQueue).key = "recentChats"
      /\ Head(storageQueue).op = "addToRecentChats"
      /\ Head(storageQueue).read = stored("recentChats"))
       => LET L == stored("recentChats")
              c == Head(storageQueue).chat
              written == storage'.recentChats[1]
              at == {k \in 1..Len(L) : L[k].domain = c.domain}
          IN IF at = {}
             THEN IF Len(L) < MaxRecentChats
                  THEN written = <<c>> \o L
                  ELSE written = <<c>> \o SubSeq(L, 1, MaxRecentChats - 1)
             ELSE \E k \in at :
                    written = <<c>> \o SubSeq(L, 1, k - 1) \o SubSeq(L, k + 1, Len(L))]_vars

\* the last two requests are addToRecentChats for one domain with two prices
TwoAddsSameDomain ==
  /\ Len(reqLog) >= 2
  /\ reqLog[Len(reqLog) - 1].action = "addToRecentChats"
  /\ reqLog[Len(reqLog)].action = "addToRecentChats"
  /\ reqLog[Len(reqLog) - 1].domain = reqLog[Len(reqLog)].domain
  /\ reqLog[Len(reqLog) - 1].price # reqLog[Len(reqLog)].price

\* C8: after two addToRecentChats requests for one domain with different
\* prices, once both have been written, the list holds exactly one entry for
\* the domain, at the front, with the price of the second request.
C8_SecondAddWins ==
  (TwoAddsSameDomain /\ storageQueue = <<>>) =>
    LET list == stored("recentChats")
        second == reqLog[Len(reqLog)]
    IN /\ Len(list) > 0
       /\ list[1].domain = second.domain
       /\ list[1].price = second.price
       /\ Cardinality({i \in 1..Len(list) : list[i].domain = second.domain}) = 1

\* the step is a handleTabUpdate call for domain that passes the enabled
\* check: a tab event, or the re-check of removeFromBlacklist or of toggleExtension
TabUpdateFor(domain) ==
  /\ isExtensionEnabled
  /\ \/ \E t \in Tabs : TabEvent(t) /\ extractDomain(tabUrl'[t]) = domain
     \/ /\ extractDomain(tabUrl[activeTab]) = domain
        /\ \/ ToggleOnQueryDone
           \/ \E task \in BagToSet(pending) :
                RemoveFromBlacklistQueryDone(task) /\ task.domain = domain

\* C9: after addToBlacklist(D) and removeFromBlacklist(D), for the valid domain
\* D tracked on the active tab, D is not blacklisted and the next tab update
\* for D, the re-check of removeFromBlacklist included, starts a resolution of D.
C9_RoundTripResolvesAgain ==
  [][\A d \in BlacklistDomains :
       (history.roundTrip = <<"removed", d>> /\ TabUpdateFor(d))
         => (~Blacklisted(d) /\ ResolutionStarted(d))]_vars

\* C10: the re-evaluation that ends an off-to-on toggle, with a valid and not
\* blacklisted domain D on the active tab and no tab update since the toggle,
\* starts a resolution of D, also when D was the tracked domain before.
C10_ReenableResolves ==
  [][(/\ ToggleOnQueryDone
      /\ isExtensionEnabled
      /\ history.reenabled
      /\ Truthy(extractDomain(tabUrl[activeTab]))
      /\ ~Blacklisted(extractDomain(tabUrl[activeTab])))
       => ResolutionStarted(extractDomain(tabUrl[activeTab]))]_vars

\* C5 happens: a tab event repeated the domain of the tab while the resolver
\* call of the first event is still in flight
C5_RepeatedWhileResolving ==
  /\ isExtensionEnabled
  /\ history.repeated
  /\ history.calls = 1
  /\ history.domain = DomA
  /\ \E task \in BagToSet(pending) : task.kind = "fetch" /\ task.domain = DomA

\* C6 happens: requests were served and the list is full, led by the eleventh
\* domain
C6_FullListAfterAdd ==
  /\ reqLog # <<>>
  /\ storageQueue = <<>>
  /\ Len(stored("recentChats")) = MaxRecentChats
  /\ stored("recentChats")[1].domain = ChatDomain(MaxRecentChats + 1)

\* C7 happens: a chat for an eleventh domain was added to a full list
C7_AddedToFullList ==
  /\ Len(reqLog) = 1
  /\ storageQueue = <<>>
  /\ stored("recentChats") =
       <<Chat(ChatDomain(MaxRecentChats + 1), <<"y">>, Listing2)>>
         \o SubSeq(StoredChats(MaxRecentChats), 1, MaxRecentChats - 1)

\* C8 happens: both adds were written to a full list and the second price is
\* at the front
C8_BothAddsWritten ==
  /\ TwoAddsSameDomain
  /\ storageQueue = <<>>
  /\ Len(reqLog) = 2
  /\ stored("recentChats")[1].price = reqLog[2].price
  /\ Len(stored("recentChats")) = MaxRecentChats

\* the last step answered a getStatus request
StatusSent == "domain" \in DOMAIN sentResponse

\* C11: a getStatus request handled while monitoring is disabled is answered
\* with enabled false, the tracked domain, and an absent address, price,
\* decimals and currency.
C11_StatusWhileDisabled ==
  (StatusSent /\ ~isExtensionEnabled) =>
    /\ sentResponse.enabled = FALSE
    /\ sentResponse.domain = currentDomain
    /\ ~Truthy(sentResponse.ethAddress)
    /\ ~Truthy(sentResponse.price)
    /\ ~Truthy(sentResponse.decimals)
    /\ ~Truthy(sentResponse.currency)

\* C12: while monitoring is disabled no step sets a badge to the active
\* marker, calls openPopup, or creates a system notification, also when the
\* resolution or the timer was started before the disable.
C12_DisabledSuppressesSideEffects ==
  [][(~isExtensionEnabled /\ ~isExtensionEnabled') =>
       /\ \A t \in Tabs : badge'[t] = BadgeActive => badge[t] = BadgeActive
       /\ ~\E task \in BagToSet(pending) : TimerFired(task)
       /\ notification' = Null]_vars

\* the stored recent-chats list shows the effect of request r
EffectStored(r) ==
  IF r.action = "addToRecentChats"
  THEN \E i \in 1..Len(stored("recentChats")) : stored("recentChats")[i].domain = r.domain
  ELSE \A i \in 1..Len(stored("recentChats")) : stored("recentChats")[i].domain # r.domain

\* C13: after two mutation requests on recentChats for different domains have
\* both finished, the stored list shows the effect of both, also when the
\* second was issued before the first had finished.
C13_NoLostUpdate ==
  (/\ Len(reqLog) = 2
   /\ reqLog[1].domain # reqLog[2].domain
   /\ storageQueue = <<>>)
    => (EffectStored(reqLog[1]) /\ EffectStored(reqLog[2]))

\* C14: once clearRecentChats has sent one remove request per chat of the
\* list and all of them have completed, the stored recentChats is empty.
C14_ClearEmptiesList ==
  (Len(reqLog) = Len(arg) /\ storageQueue = <<>>) => stored("recentChats") = <<>>

\* the in-memory settings are the persisted ones
SettingsLoaded ==
  /\ isExtensionEnabled = (storage.extensionEnabled # <<FALSE>>)
  /\ cachedBlacklistedDomains = stored("blacklistedDomains")

\* C15: the first tab event after a start of the process, arriving when no
\* read of the settings is outstanding, is handled with the enabled flag and
\* the in-memory blacklist equal to the persisted ones.
C15_SettingsLoadedBeforeTabEvents ==
  [][\A t \in Tabs :
       (history.started /\ storageQueue = <<>> /\ TabEvent(t)) => SettingsLoaded]_vars

\* a write of extensionEnabled is outstanding
ToggleWriteOutstanding ==
  \E i \in 1..Len(storageQueue) :
    storageQueue[i].kind = "set" /\ storageQueue[i].key = "extensionEnabled"

\* the previous step was a toggleExtension request (it answered { enabled })
ToggleAnswered == DOMAIN sentResponse = {"enabled"}

\* C16: a toggleExtension request flips the enabled flag and answers with the
\* new value; a second one directly after it restores the value from before
\* the first; and once extensionEnabled has been written and no write of it is
\* outstanding, the persisted value is the in-memory flag.
C16_TogglePersistsFlag ==
  [][/\ toggleExtension =>
          /\ isExtensionEnabled' = ~isExtensionEnabled
          /\ sentResponse' = [enabled |-> isExtensionEnabled']
          /\ ToggleAnswered => isExtensionEnabled' = ~sentResponse.enabled
     /\ (storage.extensionEnabled # <<>> /\ ~ToggleWriteOutstanding)
          => storage.extensionEnabled = <<isExtensionEnabled>>]_vars

\* ------------------------------------------------- extractDomain on its own
\* characters of the hostnames: a letter in both cases, the dot, an upper-case
\* and a lower-case letter
HostChars == {"w", "W", ".", "A", "b"}
Hostnames == UNION {[1..n -> HostChars] : n \in 0..MaxHostLen}
ExtractDomainInputs == {NoUrl, EmptyUrl, BadUrl} \cup {Url(h) : h \in Hostnames}

InitExtractDomain ==
  /\ InitMemory
  /\ storage = [extensionEnabled |-> <<>>, blacklistedDomains |-> <<>>, recentChats |-> <<>>]
  /\ storageQueue = <<>>
  /\ arg \in ExtractDomainInputs
  /\ ret = <<>>

\* extractDomain(arg) is called and returns
ExtractDomainCalled ==
  /\ ret = <<>>
  /\ ret' = <<extractDomain(arg)>>
  /\ UNCHANGED <<memVars, storage, storageQueue, pending, envVars, badge,
                 notification, sentResponse, arg, history, reqLog>>

NextExtractDomain == ExtractDomainCalled

SpecExtractDomain == InitExtractDomain /\ [][NextExtractDomain]_vars

WwwPrefix == <<"w", "w", "w", ".">>

\* C17 as stated: for every hostname D, those beginning with "www." included,
\* extractDomain returns for D what it returns for "www." followed by D.
C17_WwwPrefixIrrelevant ==
  (ret # <<>> /\ arg.kind = "url")
    => ret[1] = extractDomain(Url(WwwPrefix \o arg.hostname))

\* C17: for every hostname D that does not itself begin with "www." (in any
\* letter case), extractDomain returns for D what it returns for "www."
\* followed by D.
C17_WwwPrefixIrrelevantOnce ==
  (ret # <<>> /\ arg.kind = "url" /\ ~startsWith(toLowerCase(arg.hostname), WwwPrefix))
    => ret[1] = extractDomain(Url(WwwPrefix \o arg.hostname))

\* extractDomain has returned a.b for A.b, as it does for www.A.b
C17_PlainAndWwwAgree ==
  /\ arg = Url(<<"A", ".", "b">>)
  /\ ret = <<DomA>>
  /\ extractDomain(UrlA) = DomA

\* C18: extractDomain returns absent for an absent, empty or unparseable url;
\* otherwise the hostname in lower case without one leading "www.", or absent
\* when that has no "." or fewer than 3 characters; the call changes nothing
\* of the extension's state.
C18_ExtractDomainResult ==
  [][ExtractDomainCalled =>
       /\ UNCHANGED <<memVars, storage, storageQueue, pending, badge>>
       /\ IF arg.kind # "url" THEN ret' = <<Null>>
          ELSE LET h == arg.hostname
                   low == [i \in 1..Len(h) |->
                             CASE h[i] = "W" -> "w" [] h[i] = "A" -> "a" [] OTHER -> h[i]]
                   www == /\ Len(low) >= 4
                          /\ low[1] = "w" /\ low[2] = "w" /\ low[3] = "w" /\ low[4] = "."
                   cut == IF www THEN [i \in 1..(Len(low) - 4) |-> low[i + 4]] ELSE low
               IN IF (\A i \in 1..Len(cut) : cut[i] # ".") \/ Len(cut) < 3
                  THEN ret' = <<Null>>
                  ELSE ret' = <<cut>>]_vars

\* extractDomain has returned a.b for www.A.b
C18_WwwExampleCom == arg = UrlA /\ ret = <<DomA>>

\* the colon-separated segments of the record's owner identifier
OwnerSegments(response) == split(resolveNameAddress(response).claimedBy, ":")

NoListing(nameData) ==
  Len(nameData.tokens) = 0 \/ Len(nameData.tokens[1].listings) = 0

\* C19: when the resolution for the tracked domain delivers a record whose
\* owner identifier has fewer than three segments, the address and every price
\* field are absent afterwards, the badge of the tab is cleared and no popup
\* timer is started; with a third segment the address is that segment, and the
\* price fields are absent if the record has no listing.
C19_TwoSegmentOwnerIsNotFound ==
  [][\A task \in BagToSet(pending), response \in Responses :
       (/\ task.kind = "fetch"
        /\ isExtensionEnabled
        /\ task.domain = currentDomain
        /\ ~Blacklisted(task.domain)
        /\ ~NotFound(response) /\ ~Throws(response)
        /\ ResolveDone(task, response))
         => IF Len(OwnerSegments(response)) < 3
            THEN /\ ~Truthy(ethAddress')
                 /\ price' = Undefined /\ decimals' = Undefined /\ currency' = Undefined
                 /\ badge'[task.tab] = BadgeClear
                 /\ pending' = pending (-) Task(task)
            ELSE /\ ethAddress' = OwnerSegments(response)[3]
                 /\ NoListing(resolveNameAddress(response))
                      => (price' = Undefined /\ decimals' = Undefined
                          /\ currency' = Undefined)]_vars

\* C20: once the settings are loaded, every step that changes the enabled flag
\* is the handling of a toggleExtension request; tab events, resolution
\* completions, blacklist requests, recent-chats requests and getStatus
\* requests leave it as it is.
C20_OnlyToggleChangesEnabled ==
  [][isExtensionEnabled' # isExtensionEnabled => toggleExtension]_vars

\* a tab event for a.b, its resolution and a recent-chats request were
\* handled and the extension was switched off; a getStatus request has just
\* been answered and the flag is still off
C20_StillDisabledAfterRequests ==
  /\ ~isExtensionEnabled
  /\ currentDomain = DomA
  /\ ethAddress = <<"x">>
  /\ reqLog # <<>>
  /\ StatusSent

\* C21: the step that issues the resolver call (handleTabUpdate resumed after
\* shouldAutoOpenPopup) never issues it for a domain that is in the persisted
\* blacklist at that moment.
C21_NoResolverCallForBlacklisted ==
  [][ShouldAutoOpenPopupDone =>
       ~includes(stored("blacklistedDomains"), Head(storageQueue).domain)]_vars

\* the step issues the resolver call of handleTabUpdate for the snapshot call
\* at the head of the storage queue, with shouldShowPopup = flag
ResolverCallIssued(flag) ==
  /\ storageQueue # <<>>
  /\ Head(storageQueue).cont = "shouldAutoOpenPopup"
  /\ pending' = pending (+) Task([kind |-> "fetch", domain |-> Head(storageQueue).domain,
                                  tab |-> Head(storageQueue).tab,
                                  shouldShowPopup |-> flag])

\* the step starts the 500 ms timer that opens the popup for domain
PopupTimerStarted(domain) ==
  CopiesIn([kind |-> "timer", domain |-> domain], pending')
    > CopiesIn([kind |-> "timer", domain |-> domain], pending)

\* C22: the resolver call is issued with shouldShowPopup true exactly when the
\* snapshot read succeeded and the domain is neither in the persisted
\* recentChats nor in the persisted blacklist at that moment (false when the
\* read failed); the popup timer is started only by the completion of a
\* resolution that carried shouldShowPopup true and delivered an owner
\* identifier with a third segment; the popup is attempted only when such a
\* timer fires and the notification is created only when that attempt failed.
C22_NotifyOnlyWhenSnapshotAllows ==
  [][/\ ShouldAutoOpenPopupDone =>
          LET d == Head(storageQueue).domain
              chats == stored("recentChats")
              listed == stored("blacklistedDomains")
          IN ResolverCallIssued(/\ \A i \in 1..Len(chats) : chats[i].domain # d
                                /\ \A i \in 1..Len(listed) : listed[i] # d)
     /\ (StorageFailed /\ Head(storageQueue).cont = "shouldAutoOpenPopup")
          => ResolverCallIssued(FALSE)
     /\ \A d \in {DomA, DomB} :
          PopupTimerStarted(d) =>
            \E task \in BagToSet(pending), response \in Responses :
              /\ ResolveDone(task, response)
              /\ task.domain = d
              /\ task.shouldShowPopup
              /\ ~NotFound(response) /\ ~Throws(response)
              /\ Len(OwnerSegments(response)) >= 3
     /\ \A d \in {DomA, DomB} :
          (CopiesIn([kind |-> "openPopup", domain |-> d], pending')
             > CopiesIn([kind |-> "openPopup", domain |-> d], pending))
            => TimerFired([kind |-> "timer", domain |-> d])
     /\ \A d \in {DomA, DomB} :
          notification' = NotificationId(d)
            => OpenPopupRejected([kind |-> "openPopup", domain |-> d])
     /\ notification' \in {Null, NotificationId(DomA), NotificationId(DomB)}]_vars

\* the popup timer runs for a.b, which was in neither list at the snapshot
C22_PopupTimerForNewDomain ==
  /\ BagIn([kind |-> "timer", domain |-> DomA], pending)
  /\ ~includes(chatDomains(stored("recentChats")), DomA)

\* C23: a notification is created only by the step in which an openPopup call
\* is rejected, with the id "eth-found-" followed by the domain of that call,
\* and never by the step in which the call resolves; the ids of two domains
\* are equal exactly when the domains are.
C23_NotificationOnlyAfterFailedPopup ==
  [][/\ notification' # Null =>
          \E task \in BagToSet(pending) :
            /\ task.kind = "openPopup"
            /\ OpenPopupRejected(task)
            /\ notification' = <<"eth-found-">> \o task.domain
     /\ \A task \in BagToSet(pending) :
          OpenPopupResolved(task) => notification' = Null
     /\ \A d1 \in {DomA, DomB, WwwPrefix \o DomA}, d2 \in {DomA, DomB, WwwPrefix \o DomA} :
          (NotificationId(d1) = NotificationId(d2)) <=> (d1 = d2)]_vars

\* the fallback notification for a.b has just been created
C23_NotificationCreated == notification = NotificationId(DomA)

\* C24: while disabled, a tab event whose extracted domain differs from
\* currentDomain replaces currentDomain with it, starts no resolution, leaves
\* the owner absent and clears the badge of that tab.
C24_DisabledTabEventTracksDomain ==
  [][\A t \in Tabs :
       (/\ ~isExtensionEnabled
        /\ TabEvent(t)
        /\ extractDomain(tabUrl'[t]) # currentDomain)
         => /\ currentDomain' = extractDomain(tabUrl'[t])
            /\ storageQueue' = storageQueue
            /\ ~ResolvedOwnerPresent'
            /\ badge'[t] = BadgeClear]_vars

\* the step is a tab-finished-loading event for tab t, or the tab read that
\* follows a tab-activated event, whatever the tab's url
TabLoadedOrActivated(t) == TabUpdated(t, tabUrl'[t]) \/ TabsGetDone(t)

\* C25: while enabled, a tab event whose tab has no url, an unparseable url or
\* a url whose domain is blacklisted (persisted and cached) sets currentDomain
\* to the extracted value, clears the owner and the badge of that tab and
\* starts no resolution.
C25_UnmonitoredTabEventClears ==
  [][\A t \in Tabs :
       (/\ isExtensionEnabled
        /\ TabLoadedOrActivated(t)
        /\ \/ tabUrl'[t] \in {NoUrl, BadUrl}
           \/ /\ includes(cachedBlacklistedDomains, extractDomain(tabUrl'[t]))
              /\ includes(stored("blacklistedDomains"), extractDomain(tabUrl'[t])))
         => /\ currentDomain' = extractDomain(tabUrl'[t])
            /\ ~ResolvedOwnerPresent'
            /\ badge'[t] = BadgeClear
            /\ storageQueue' = storageQueue]_vars

\* the storage call belongs to one of the four requests that change a list
ListOperation(call) ==
  (IF "op" \in DOMAIN call THEN call.op ELSE call.cont)
    \in {"addToRecentChats", "removeFromRecentChats", "addToBlacklist", "removeFromBlacklist"}

\* C26: when a storage call of addToRecentChats, removeFromRecentChats,
\* addToBlacklist or removeFromBlacklist fails, the step of the failure sends
\* a response to the requester, and the step before it (the handling step,
\* when the first read fails) has not answered { success: true }.
C26_FailureIsNotAnsweredSuccess ==
  [][(StorageFailed /\ ListOperation(Head(storageQueue)))
       => /\ sentResponse # [success |-> TRUE]
          /\ sentResponse' # NoResponse]_vars

\* the storage write of addToBlacklist or removeFromBlacklist fails
BlacklistWriteFailed ==
  /\ StorageFailed
  /\ Head(storageQueue).kind = "set"
  /\ Head(storageQueue).cont \in {"addToBlacklist", "removeFromBlacklist"}

\* C27: the steps of an addToBlacklist or removeFromBlacklist whose write
\* fails (the handling of the request, the return of the read, the failure of
\* the write) leave the enabled flag, currentDomain, the owner and the cached
\* blacklist as they were, clear no badge and leave no callback of the
\* operation outstanding.
C27_FailedWriteLeavesMemory ==
  [][(\/ \E d \in BlacklistDomains : addToBlacklist(d) \/ removeFromBlacklist(d)
      \/ AddToBlacklistGot
      \/ RemoveFromBlacklistGot
      \/ BlacklistWriteFailed)
       => /\ UNCHANGED <<isExtensionEnabled, currentDomain, ethAddress, price, decimals,
                         currency, cachedBlacklistedDomains>>
          /\ UNCHANGED <<pending, badge, storage>>]_vars

\* the write of addToBlacklist failed while a.b was tracked with its owner:
\* the owner is still there and the cache does not hold a.b
C27_OwnerKeptAfterFailedWrite ==
  /\ history.failed = <<"set", "addToBlacklist">>
  /\ Idle
  /\ currentDomain = DomA
  /\ ethAddress = <<"x">>
  /\ ~includes(cachedBlacklistedDomains, DomA)

\* ------------------------------------------- settings page: addDomain
\* String.prototype.trim() for the space character
RECURSIVE trimStart(_)
trimStart(s) == IF s # <<>> /\ Head(s) = " " THEN trimStart(Tail(s)) ELSE s

RECURSIVE trimEnd(_)
trimEnd(s) ==
  IF s # <<>> /\ s[Len(s)] = " " THEN trimEnd(SubSeq(s, 1, Len(s) - 1)) ELSE s

trim(s) == trimEnd(trimStart(s))

\* [a-zA-Z0-9] restricted to the characters of the model
AlphaNumeric == {"a", "b", "c", "d", "w", "x", "A", "B", "C", "D", "W", "0", "1"}

\* one label of the regular expression:
\* [a-zA-Z0-9][a-zA-Z0-9-]{0,61}[a-zA-Z0-9]
DomainLabel(label) ==
  /\ Len(label) >= 2
  /\ Len(label) <= 63
  /\ label[1] \in AlphaNumeric
  /\ label[Len(label)] \in AlphaNumeric
  /\ \A i \in 2..(Len(label) - 1) : label[i] \in AlphaNumeric \cup {"-"}

\* domainRegex.test(domain) && domain.length >= 3 && domain.length <= 253
isValidDomain(domain) ==
  /\ \A i \in 1..Len(split(domain, ".")) : DomainLabel(split(domain, ".")[i])
  /\ Len(domain) >= 3
  /\ Len(domain) <= 253

\* what the user types into the settings page
DomainInputs ==
  {h \in Hostnames : Len(h) < MaxHostLen}
    \cup {<<" ">> \o UrlA.hostname \o <<" ">>, <<" ">>, <<"A", "-", "b">>}

\* addDomain of the settings page, with the router's handling of the
\* addToBlacklist message it sends; ret is the dialog it opens, or "sent"
addDomain ==
  /\ ret = <<>>
  /\ LET domain == toLowerCase(trim(arg)) IN
       IF domain = <<>>
       THEN ret' = <<"Invalid Input">>
            /\ UNCHANGED storageQueue /\ sentResponse' = NoResponse
       ELSE IF ~isValidDomain(domain)
       THEN ret' = <<"Invalid Domain">>
            /\ UNCHANGED storageQueue /\ sentResponse' = NoResponse
       ELSE IF includes(stored("blacklistedDomains"), domain)
       THEN ret' = <<"Domain Already Exists">>
            /\ UNCHANGED storageQueue /\ sentResponse' = NoResponse
       ELSE /\ ret' = <<"sent">>
            /\ storageQueue' = Append(storageQueue,
                 [kind |-> "get", cont |-> "addToBlacklist", domain |-> domain])
            /\ sentResponse' = [success |-> TRUE]
  /\ notification' = Null
  /\ UNCHANGED <<memVars, storage, pending, envVars, badge, arg, history, reqLog>>

InitAddDomain ==
  /\ InitMemory
  /\ \E list \in {<<>>, << <<DomA>> >>} :
       storage = [extensionEnabled |-> <<>>, blacklistedDomains |-> list,
                  recentChats |-> <<>>]
  /\ storageQueue = <<>>
  /\ arg \in DomainInputs
  /\ ret = <<>>

NextAddDomain ==
  \/ addDomain
  \/ AddToBlacklistGot
  \/ AddToBlacklistSet
  \/ \E task \in BagToSet(pending) : AddToBlacklistQueryDone(task)

SpecAddDomain == InitAddDomain /\ [][NextAddDomain]_vars

\* C28: every member of the persisted blacklist is a value extractDomain can
\* return: lower case, without a leading "www.", with a "." and at least 3
\* characters.
C28_BlacklistMembersNormalized ==
  \A i \in 1..Len(stored("blacklistedDomains")) :
    LET d == stored("blacklistedDomains")[i] IN
      /\ \A k \in 1..Len(d) : d[k] \notin {"A", "B", "C", "D", "W"}
      /\ ~(Len(d) >= 4 /\ SubSeq(d, 1, 4) = WwwPrefix)
      /\ extractDomain(Url(d)) = d

\* C29: after a resolution that ended without a record or threw, a tab event
\* while enabled whose domain is valid, not blacklisted and different from
\* currentDomain starts a resolution of that domain, and the snapshot read
\* that precedes the resolver call is followed by the call.
C29_FailedResolutionDoesNotBlock ==
  [][/\ \A t \in Tabs :
          (/\ history.unresolved
           /\ isExtensionEnabled
           /\ TabEvent(t)
           /\ Truthy(extractDomain(tabUrl'[t]))
           /\ ~Blacklisted(extractDomain(tabUrl'[t]))
           /\ extractDomain(tabUrl'[t]) # currentDomain)
            => ResolutionStarted(extractDomain(tabUrl'[t]))
     /\ ShouldAutoOpenPopupDone =>
          \E flag \in BOOLEAN : ResolverCallIssued(flag)]_vars

\* the last resolution failed and the resolver call for c.d, loaded after it,
\* is outstanding
C29_ResolvingAfterFailure ==
  /\ history.unresolved
  /\ currentDomain = DomB
  /\ \E task \in BagToSet(pending) : task.kind = "fetch" /\ task.domain = DomB

\* a request of the kind is waiting for its storage read
ReadRequested(kind) ==
  \E i \in 1..Len(storageQueue) : storageQueue[i].cont = kind

\* C30: getStatus and toggleExtension are answered in the handling step from
\* the module variables, the four list requests in the handling step with
\* { success: true }; getRecentChats and getBlacklist send nothing in the
\* handling step and are answered with the persisted list (empty when the key
\* was never written) by the return of their read; no other step sends a
\* response; and a getRecentChats or getBlacklist request that is waiting is
\* eventually answered.
C30_EveryRequestAnsweredOnce ==
  /\ [][/\ getStatus =>
             sentResponse' = [enabled |-> isExtensionEnabled, domain |-> currentDomain,
                              ethAddress |-> ethAddress, price |-> price,
                              decimals |-> decimals, currency |-> currency]
        /\ toggleExtension => sentResponse' = [enabled |-> ~isExtensionEnabled]
        /\ (\/ \E d \in BlacklistDomains : addToBlacklist(d) \/ removeFromBlacklist(d)
            \/ Len(reqLog') = Len(reqLog) + 1)
             => sentResponse' = [success |-> TRUE]
        /\ (getRecentChats \/ getBlacklist) => sentResponse' = NoResponse
        /\ GetRecentChatsDone =>
             sentResponse' = [recentChats |->
                                IF storage.recentChats = <<>> THEN <<>>
                                ELSE storage.recentChats[1]]
        /\ GetBlacklistDone =>
             sentResponse' = [blacklistedDomains |->
                                IF storage.blacklistedDomains = <<>> THEN <<>>
                                ELSE storage.blacklistedDomains[1]]
        /\ sentResponse' # NoResponse =>
             \/ ProtocolRequest
             \/ GetRecentChatsDone
             \/ GetBlacklistDone]_vars
  /\ ReadRequested("getRecentChats") ~> (DOMAIN sentResponse = {"recentChats"})
  /\ ReadRequested("getBlacklist") ~> (DOMAIN sentResponse = {"blacklistedDomains"})

\* getBlacklist has just been answered with the empty list, the key never
\* having been written
C30_EmptyBlacklistAnswered ==
  /\ sentResponse = [blacklistedDomains |-> <<>>]
  /\ storage.blacklistedDomains = <<>>

\* the write at position i of the storage queue belongs to a mutation request
\* that was answered before the read at the head of the queue was sent: the
\* queue is in order of issue and a mutation's write is issued by the return
\* of its read, so that read stood before the head, and it was issued by the
\* handling step that sent { success: true }
AnsweredWrite(i) ==
  /\ i \in 2..Len(storageQueue)
  /\ storageQueue[i].kind = "set"

\* C31: a getBlacklist or getRecentChats request sent after a mutation request
\* was answered with success: true is answered with a list that reflects the
\* mutation: the domain added is in the list returned, the domain removed is
\* not.
C31_ReadYourWrites ==
  [][/\ GetBlacklistDone =>
          \A i \in 1..Len(storageQueue) : AnsweredWrite(i) =>
            LET write == storageQueue[i] IN
              /\ write.cont = "addToBlacklist" =>
                   includes(sentResponse'.blacklistedDomains, write.domain)
              /\ write.cont = "removeFromBlacklist" =>
                   ~includes(sentResponse'.blacklistedDomains, write.domain)
     /\ GetRecentChatsDone =>
          \A i \in 1..Len(storageQueue) :
            (AnsweredWrite(i) /\ "op" \in DOMAIN storageQueue[i]) =>
              LET write == storageQueue[i] IN
                /\ write.op = "addToRecentChats" =>
                     includes(chatDomains(sentResponse'.recentChats), write.chat.domain)
                /\ write.op = "removeFromRecentChats" =>
                     ~includes(chatDomains(sentResponse'.recentChats), write.domain)]_vars

\* the step is the last one of an addToBlacklist or removeFromBlacklist
\* request: the function returns, or its tabs.query callback has run
BlacklistRequestFinished ==
  \/ AddToBlacklistGot /\ Len(storageQueue') < Len(storageQueue)
  \/ \E task \in BagToSet(pending) : AddToBlacklistQueryDone(task)
  \/ \E task \in BagToSet(pending) : RemoveFromBlacklistQueryDone(task)

\* the cached blacklist read by the gate of handleTabUpdate holds the persisted
\* list
CacheIsPersisted == cachedBlacklistedDomains = stored("blacklistedDomains")

\* C32: when an addToBlacklist or removeFromBlacklist request has finished
\* and no resolution, storage call or timer is pending, the cached blacklist
\* equals the persisted blacklistedDomains, also when the domain added was
\* already persisted.
C32_CacheEqualsPersisted ==
  [][(BlacklistRequestFinished /\ Idle') => CacheIsPersisted']_vars

\* a resolution is in flight: handleTabUpdate waits for shouldAutoOpenPopup or
\* for resolveNameAddress
ResolutionInFlight ==
  \/ \E i \in 1..Len(storageQueue) : storageQueue[i].cont = "shouldAutoOpenPopup"
  \/ \E task \in BagToSet(pending) : task.kind = "fetch"

\* C33: whenever no resolution is in flight, a tab whose badge shows the
\* active marker while the tracked domain is the domain last handled for that
\* tab has a present owner address.  (history.domain is the domain of the
\* latest handleTabUpdate call, all calls being for the one tab.)
C33_ActiveBadgeHasOwner ==
  \A t \in Tabs :
    (/\ ~ResolutionInFlight
     /\ badge[t] = BadgeActive
     /\ currentDomain = history.domain)
      => ResolvedOwnerPresent

\* ------------------------------------------------- the blacklist requests
\* addToBlacklist and removeFromBlacklist requests for three domains, arriving
\* at any time, on a browser without a stored list or updated over a stored
\* list of the three; no tab is loaded.
BlacklistRequestDomains == {DomA, DomB, ChatDomain(1)}

InitBlacklist ==
  /\ InitMemory
  /\ \E list \in {<<>>, << <<DomA, DomB, ChatDomain(1)>> >>} :
       storage = [extensionEnabled |-> <<>>, blacklistedDomains |-> list,
                  recentChats |-> <<>>]
  /\ storageQueue = << [kind |-> "get", cont |-> "onInstalled"] >>
  /\ arg = <<>>
  /\ ret = <<>>

NextBlacklist ==
  \/ \E d \in BlacklistRequestDomains : addToBlacklist(d)
  \/ \E d \in BlacklistRequestDomains : removeFromBlacklist(d)
  \/ OnInstalledLoaded
  \/ AddToBlacklistGot
  \/ AddToBlacklistSet
  \/ \E task \in BagToSet(pending) : AddToBlacklistQueryDone(task)
  \/ RemoveFromBlacklistGot
  \/ RemoveFromBlacklistSet
  \/ \E task \in BagToSet(pending) : RemoveFromBlacklistQueryDone(task)

SpecBlacklist == InitBlacklist /\ [][NextBlacklist]_vars

\* no member of the list occurs twice
NoDuplicates(list) ==
  \A i, j \in 1..Len(list) : list[i] = list[j] => i = j

\* list holds the members of from other than domain, each once per occurrence
\* and in the order they have in from
KeepsOthersInOrder(list, from, domain) ==
  \E pos \in [1..Len(list) -> 1..Len(from)] :
    /\ \A i \in 1..Len(list) : list[i] = from[pos[i]]
    /\ \A i, j \in 1..Len(list) : i < j => pos[i] < pos[j]
    /\ \A k \in 1..Len(from) :
         from[k] # domain => \E i \in 1..Len(list) : pos[i] = k

\* C34: the persisted blacklist never holds a domain twice, however the
\* requests interleave; addToBlacklist of a domain that is in the list it
\* reads issues no write; removeFromBlacklist writes the list it read without
\* any occurrence of the domain, the other members kept in their order, and
\* when its write has completed the persisted list does not hold the domain.
C34_NoDuplicateDomains ==
  /\ [] NoDuplicates(stored("blacklistedDomains"))
  /\ [][/\ (/\ AddToBlacklistGot
            /\ includes(stored("blacklistedDomains"), Head(storageQueue).domain))
           => /\ storageQueue' = Tail(storageQueue)
              /\ storage' = storage
        /\ RemoveFromBlacklistGot =>
             LET write == storageQueue'[Len(storageQueue')] IN
               /\ write.kind = "set"
               /\ write.key = "blacklistedDomains"
               /\ ~includes(write.value, Head(storageQueue).domain)
               /\ KeepsOthersInOrder(write.value, stored("blacklistedDomains"),
                                     Head(storageQueue).domain)
        /\ RemoveFromBlacklistSet =>
             /\ stored("blacklistedDomains")' = Head(storageQueue).value
             /\ ~includes(stored("blacklistedDomains")', Head(storageQueue).domain)]_vars

\* removeFromBlacklist has written the list of three without its middle member
C34_MiddleRemoved ==
  /\ stored("blacklistedDomains") = <<DomA, ChatDomain(1)>>
  /\ \E task \in BagToSet(pending) :
       /\ task.kind = "tabsQuery"
       /\ task.cont = "removeFromBlacklist"
       /\ task.domain = DomB
       /\ task.wasListed

\* --------------------------------------- removeFromRecentChats on its own
\* removeFromRecentChats requests arriving, like the tab events, the toggles
\* and the blacklist requests, while nothing is in flight, over a stored list
\* of the n most recent chat domains.
RemoveChatEvent ==
  \/ \E t \in Tabs : TabUpdated(t, UrlA)
  \/ toggleExtension
  \/ \E d \in BlacklistDomains : addToBlacklist(d)
  \/ \E d \in BlacklistDomains : removeFromBlacklist(d)
  \/ \E d \in ChatRequestDomains : removeFromRecentChats(d)

InitRemoveChat ==
  /\ InitMemory
  /\ \E n \in InitialChatCounts :
       storage = [extensionEnabled |-> <<>>, blacklistedDomains |-> <<>>,
                  recentChats |-> << StoredChats(n) >>]
  /\ storageQueue = << [kind |-> "get", cont |-> "onInstalled"] >>
  /\ arg = <<>>
  /\ ret = <<>>

NextRemoveChat ==
  \/ Idle /\ RemoveChatEvent
  \/ ShouldAutoOpenPopupDone
  \/ \E task \in BagToSet(pending), response \in RouterResponses : ResolveDone(task, response)
  \/ \E task \in BagToSet(pending) : TimerFired(task)
  \/ \E task \in BagToSet(pending) : OpenPopupResolved(task)
  \/ \E task \in BagToSet(pending) : OpenPopupRejected(task)
  \/ OnInstalledLoaded
  \/ StorageSetDone
  \/ ToggleOffQueryDone
  \/ ToggleOnQueryDone
  \/ AddToBlacklistGot
  \/ AddToBlacklistSet
  \/ \E task \in BagToSet(pending) : AddToBlacklistQueryDone(task)
  \/ RemoveFromBlacklistGot
  \/ RemoveFromBlacklistSet
  \/ \E task \in BagToSet(pending) : RemoveFromBlacklistQueryDone(task)
  \/ RemoveFromRecentChatsGot

SpecRemoveChat == InitRemoveChat /\ [][NextRemoveChat]_vars

\* written is the list without its entries for domain: every other entry is
\* kept as it is, moved up by the number of entries removed before it
WithoutEntriesFor(written, list, domain) ==
  LET at == {k \in 1..Len(list) : list[k].domain = domain} IN
    /\ Len(written) = Len(list) - Cardinality(at)
    /\ \A k \in (1..Len(list)) \ at :
         written[k - Cardinality({j \in at : j < k})] = list[k]

\* the step belongs to a removeFromRecentChats request: the handling step,
\* the return of its read, or the completion of its write
RemoveFromRecentChatsStep ==
  \/ \E d \in ChatRequestDomains : removeFromRecentChats(d)
  \/ RemoveFromRecentChatsGot
  \/ /\ StorageSetDone
     /\ Head(storageQueue).key = "recentChats"
     /\ Head(storageQueue).op = "removeFromRecentChats"

\* C35: removeFromRecentChats(domain), run with nothing written between its
\* read and its write, stores the list without the entries for the domain,
\* every other entry unchanged and in the same order, which is the same list
\* when the domain is not listed; none of its steps changes the blacklist
\* (persisted or cached), the enabled flag (persisted or in memory),
\* currentDomain or the owner.
C35_RemoveFromRecentChatsEffect ==
  [][/\ (/\ StorageSetDone
         /\ Head(storageQueue).key = "recentChats"
         /\ Head(storageQueue).op = "removeFromRecentChats"
         /\ Head(storageQueue).read = stored("recentChats"))
          => LET L == stored("recentChats")
                 domain == Head(storageQueue).domain
             IN /\ storage'.recentChats # <<>>
                /\ WithoutEntriesFor(storage'.recentChats[1], L, domain)
                /\ ~includes(chatDomains(L), domain) => storage'.recentChats[1] = L
     /\ RemoveFromRecentChatsStep =>
          /\ UNCHANGED <<isExtensionEnabled, currentDomain, ownerVars,
                         cachedBlacklistedDomains>>
          /\ storage'.blacklistedDomains = storage.blacklistedDomains
          /\ storage'.extensionEnabled = storage.extensionEnabled]_vars

\* the chat for the second domain was removed from the full list while a.b is
\* tracked with its owner
C35_RemovedFromFullList ==
  /\ Idle
  /\ reqLog # <<>>
  /\ reqLog[Len(reqLog)].domain = ChatDomain(2)
  /\ stored("recentChats") =
       SubSeq(StoredChats(MaxRecentChats), 1, MaxRecentChats - 2)
         \o <<StoredChats(MaxRecentChats)[MaxRecentChats]>>
  /\ currentDomain = DomA
  /\ ResolvedOwnerPresent

====
